---- MODULE Spec2Model ----
(***************************************************************************)
(* blake-rs: the safe Rust wrapper (src/lib.rs, src/native.rs) around the  *)
(* BLAKE hash engine.  The wrapper's functions are modelled from the Rust  *)
(* source.  The engine behind the extern "C" declarations of native.rs is  *)
(* not part of src/, it is modelled from the design document (sections 3   *)
(* and 4); the compression function is kept uninterpreted: a chaining      *)
(* value is the initialisation vector's tag and the list of the            *)
(* (block, counter, salt) triples compressed into it.                      *)
(***************************************************************************)
EXTENDS Integers, Sequences, FiniteSets, TLC

\* ------------------------------------------------------------------ bounds
MaxBytes   == 130    \* most bytes fed to one state
MaxUpdates == 3      \* most update calls on one state
MaxBlocks  == 1      \* the blocks the allocator has to hand out

\* --------------------------------------------------------- return codes
SUCCESS        == 0
FAIL           == 1
BAD_HASHBITLEN == 2

NULL == 0

Min(a, b) == IF a < b THEN a ELSE b
Max(a, b) == IF a > b THEN a ELSE b
Zeros(n)  == [i \in 1..n |-> 0]

\* ------------------------------------------------------------ the variants
SupportedBits == {224, 256, 384, 512}

BlockBytes(n)    == IF n < 384 THEN 64 ELSE 128
DigestBytes(n)   == n \div 8
SaltBytes(n)     == IF n < 384 THEN 16 ELSE 32
LenFieldBytes(n) == IF n < 384 THEN 8 ELSE 16
FullWidth(n)     == n \in {256, 512}

\* ------------------------------------------------- the engine (sections 3, 4)
\* The chaining value: the variant's initialisation vector, then every
\* compression applied to it.
NoCv  == [iv |-> 0, blocks |-> <<>>]
IV(n) == [iv |-> n, blocks |-> <<>>]

compress(cv, block, counter, salt) ==
    [cv EXCEPT !.blocks = Append(@, [m |-> block, t |-> counter, s |-> salt])]

NoState ==
    [variant |-> 0, chaining_value |-> NoCv, pending_buffer |-> <<>>,
     total_bits_processed |-> 0, salt |-> <<>>, is_open |-> FALSE,
     salt_locked |-> FALSE]

\* new(digest_bits)
BLAKE_Hash_Init(state, hashbitlen) ==
    IF hashbitlen \in SupportedBits
    THEN [code |-> SUCCESS,
          st   |-> [variant |-> hashbitlen, chaining_value |-> IV(hashbitlen),
                    pending_buffer |-> <<>>, total_bits_processed |-> 0,
                    salt |-> Zeros(SaltBytes(hashbitlen)), is_open |-> TRUE,
                    salt_locked |-> FALSE]]
    ELSE [code |-> BAD_HASHBITLEN, st |-> state]

\* add_salt: `salt` is what the engine reads through the pointer, SaltBytes
\* bytes of it (the call carries no length).
BLAKE_Hash_AddSalt(state, salt) ==
    IF state.salt_locked \/ ~state.is_open
    THEN [code |-> FAIL, st |-> state]
    ELSE [code |-> SUCCESS, st |-> [state EXCEPT !.salt = salt]]

\* Drains every full block of buf into the chaining value; done is the number
\* of bits compressed before buf.
RECURSIVE Drain(_, _, _, _, _)
Drain(cv, buf, done, salt, B) ==
    IF Len(buf) < B
    THEN [cv |-> cv, buf |-> buf]
    ELSE Drain(compress(cv, SubSeq(buf, 1, B), done + 8 * B, salt),
               SubSeq(buf, B + 1, Len(buf)), done + 8 * B, salt, B)

\* update: data is the caller's buffer, databitlen the bit length handed over.
BLAKE_Hash_Update(state, data, databitlen) ==
    IF ~state.is_open
    THEN [code |-> FAIL, st |-> state]
    ELSE LET B     == BlockBytes(state.variant)
             bytes == SubSeq(data, 1, Min(databitlen \div 8, Len(data)))
             done  == state.total_bits_processed - 8 * Len(state.pending_buffer)
             d     == Drain(state.chaining_value, state.pending_buffer \o bytes,
                            done, state.salt, B)
         IN  [code |-> SUCCESS,
              st   |-> [state EXCEPT !.chaining_value = d.cv,
                                     !.pending_buffer = d.buf,
                                     !.total_bits_processed = @ + 8 * Len(bytes),
                                     !.salt_locked = TRUE]]

\* The big-endian bytes of v in a field of n bytes.
RECURSIVE BigEndian(_, _)
BigEndian(v, n) ==
    IF n = 0 THEN <<>> ELSE Append(BigEndian(v \div 256, n - 1), v % 256)

\* Section 4.3: the one or two final blocks of a pending remainder.
Pad(buf, totalbits, n) ==
    LET B    == BlockBytes(n)
        L    == LenFieldBytes(n)
        r    == Len(buf)
        dom  == IF FullWidth(n) THEN 1 ELSE 0
        len  == BigEndian(totalbits, L)
    IN  IF r + 1 + L <= B
        THEN IF r + 1 + L = B
             THEN << buf \o <<128 + dom>> \o len >>
             ELSE << buf \o <<128>> \o Zeros(B - L - r - 2) \o <<dom>> \o len >>
        ELSE << buf \o <<128>> \o Zeros(B - r - 1),
                Zeros(B - L - 1) \o <<dom>> \o len >>

\* finalize: the final chaining value; a block that holds no message bits is
\* compressed with the counter at zero.
FinalCv(state) ==
    LET n      == state.variant
        r      == Len(state.pending_buffer)
        blocks == Pad(state.pending_buffer, state.total_bits_processed, n)
        c1     == IF r = 0 THEN 0 ELSE state.total_bits_processed
        cv1    == compress(state.chaining_value, blocks[1], c1, state.salt)
    IN  IF Len(blocks) = 1 THEN cv1
        ELSE compress(cv1, blocks[2], 0, state.salt)

\* What a caller's buffer of buflen bytes holds once nbytes digest bytes of cv
\* were stored through its pointer: overrun counts the bytes stored past its end.
Store(cv, nbytes, buflen) ==
    [len |-> buflen, written |-> Min(nbytes, buflen),
     overrun |-> Max(0, nbytes - buflen), cv |-> cv]

Untouched(buflen) == [len |-> buflen, written |-> 0, overrun |-> 0, cv |-> NoCv]

BLAKE_Hash_Final(state, buflen) ==
    IF ~state.is_open
    THEN [code |-> FAIL, st |-> state, out |-> Untouched(buflen)]
    ELSE [code |-> SUCCESS,
          st   |-> [state EXCEPT !.is_open = FALSE],
          out  |-> Store(FinalCv(state), DigestBytes(state.variant), buflen)]

\* Section 4.5: construction, one update, finalisation.
BLAKE_Hash_Hash(hashbitlen, data, databitlen, buflen) ==
    LET i == BLAKE_Hash_Init(NoState, hashbitlen)
    IN  IF i.code # SUCCESS
        THEN [code |-> i.code, out |-> Untouched(buflen)]
        ELSE LET u == BLAKE_Hash_Update(i.st, data, databitlen)
                 f == BLAKE_Hash_Final(u.st, buflen)
             IN  [code |-> f.code, out |-> f.out]

\* ------------------------------------------------------- the wrapper (src/)
VARIABLES
    heap,          \* the allocator's blocks: "free", "live" or "double-freed"
    blake,         \* Blake.raw_state of the live Blake value, NULL when there is none
    mem,           \* the engine state held in the block blake points to
    input,         \* the bytes passed to update on the live value while it was open
    nupdates,      \* the number of update calls on the live value
    salted,        \* the salt of the last add_salt that returned Ok on the live
                   \* value: "no" (none yet), "zero", "nonzero", "wrong" (length)
    hashval,       \* the caller's output buffer after the last call that took one
    last,          \* the last call: its arguments and what it returned
    nullCalls,     \* native calls made with a NULL state pointer
    aborted        \* the process was stopped by a fault or a panic

vars == <<heap, blake, mem, input, nupdates, salted, hashval, last, nullCalls, aborted>>

\* The inputs the calls are given.
HashBitLens == {0, 1, 224, 256, 384, 512, 1024}
ChunkLens   == {0, 1, 55, 63, 64, 111, 127, 128}
BufLens     == {28, 32, 48, 64}
SaltLens    == {8, 16, 32, 40}
Garbage     == {0, 170}      \* what a read past the end of a slice may find

\* The message the chunks are cut from: byte i of it (all distinct).
MsgByte(i)      == (7 * i + 3) % 256
Chunk(off, len) == [i \in 1..len |-> MsgByte(off + i)]
Salt(len, kind) == [i \in 1..len |-> kind * i]

SaltKind(salt, n) ==
    IF Len(salt) # SaltBytes(n) THEN "wrong"
    ELSE IF salt = Zeros(Len(salt)) THEN "zero" ELSE "nonzero"

\* A bug: the two error codes exchanged.
BlakeErrorFrom_swapped(i) ==
    CASE i = 0 -> "Panic"
      [] i = 1 -> "BadHashbitlen"
      [] i = 2 -> "Fail"
      [] OTHER -> "Panic"

\* impl From<i32> for BlakeError
BlakeErrorFrom(i) ==
    CASE i = 0 -> "Panic"
      [] i = 1 -> "Fail"
      [] i = 2 -> "BadHashbitlen"
      [] OTHER -> "Panic"

IsErr(res) == res \in {"Fail", "BadHashbitlen"}

\* The match on the native return code in hash, Blake::new and Blake::add_salt.
hash_result(e)     == IF e = 0 THEN "Ok" ELSE BlakeErrorFrom(e)
new_result(e)      == IF e = 0 THEN "Ok" ELSE BlakeErrorFrom(e)

\* A bug: the return code dropped, as update and finalise drop it.
add_salt_result_ignored(e) == "Ok"

add_salt_result(e) == IF e = 0 THEN "Ok" ELSE BlakeErrorFrom(e)

\* A bug: the byte length handed over as the bit length.
hash_databitlen_nomul(len)   == len
update_databitlen_nomul(len) == len

\* data.len() as u64 * 8 (no slice is long enough to wrap the product)
hash_databitlen(len)   == len * 8
update_databitlen(len) == len * 8

\* The body of hash: what it returns and what the buffer holds afterwards.
hash_call(hashbitlen, data, buflen) ==
    LET bits == hash_databitlen(Len(data))
        r    == BLAKE_Hash_Hash(hashbitlen, data, bits, buflen)
    IN  [res |-> hash_result(r.code), out |-> r.out, bits |-> bits]

\* A bug: the pointer of a slice that is gone by the time the engine reads.
ReadThrough_dangling(slice, n, g) == [i \in 1..n |-> g]

\* What the engine finds reading n bytes through the pointer of a slice: the
\* slice, and past its end whatever the memory holds (g).
ReadThrough(slice, n, g) ==
    IF Len(slice) >= n THEN SubSeq(slice, 1, n)
    ELSE slice \o [i \in 1..(n - Len(slice)) |-> g]

\* malloc_hash_state: a block that is free, or NULL when the allocation fails.
malloc_hash_state == {NULL} \cup {b \in DOMAIN heap : heap[b] = "free"}

\* free_hash_state: free(*state) (free(NULL) does nothing); *state = null_mut().
free_hash_state(hp, p) ==
    IF p = NULL THEN hp
    ELSE [hp EXCEPT ![p] = IF @ = "live" THEN "free" ELSE "double-freed"]

\* A bug: the block kept when Init fails.
new_on_error_leak(hp, p) == hp

\* The error arm of Blake::new.
new_on_error(hp, p) == free_hash_state(hp, p)

Phase(st) ==
    IF st.variant = 0 THEN "None"
    ELSE IF ~st.is_open THEN "Finalized"
    ELSE IF st.salt_locked THEN "Accumulating" ELSE "Fresh"

NoBuf == Untouched(0)

Call(op, hashbitlen, datalen, buflen, saltlen, bits, pre, res) ==
    [op |-> op, hashbitlen |-> hashbitlen, datalen |-> datalen, buflen |-> buflen,
     saltlen |-> saltlen, bits |-> bits, pre |-> pre, res |-> res]

Init ==
    /\ heap = [b \in 1..MaxBlocks |-> "free"]
    /\ blake = NULL
    /\ mem = NoState
    /\ input = <<>>
    /\ nupdates = 0
    /\ salted = "no"
    /\ hashval = NoBuf
    /\ last = Call("none", 0, 0, 0, 0, 0, "None", "Unit")
    /\ nullCalls = 0
    /\ aborted = FALSE

\* hash(hashbitlen, data, hashval); it shares nothing with a Blake value, so
\* it is taken while none lives.
hash(hashbitlen, len, buflen) ==
    /\ ~aborted
    /\ blake = NULL
    /\ LET c == hash_call(hashbitlen, Chunk(0, len), buflen)
       IN  /\ hashval' = c.out
           /\ last' = Call("hash", hashbitlen, len, buflen, 0, c.bits, "None", c.res)
           /\ aborted' = (c.res = "Panic")
    /\ UNCHANGED <<heap, blake, mem, input, nupdates, salted, nullCalls>>

\* Blake::new(hashbitlen); p is what malloc_hash_state returned.  One Blake value
\* lives at a time: values share nothing, so a second one adds no behaviour.
new(hashbitlen, p) ==
    /\ ~aborted
    /\ blake = NULL
    /\ p \in malloc_hash_state
    /\ LET hp == IF p = NULL THEN heap ELSE [heap EXCEPT ![p] = "live"]
           r  == BLAKE_Hash_Init(NoState, hashbitlen)
       IN  /\ nullCalls' = IF p = NULL THEN Min(nullCalls + 1, 1) ELSE nullCalls
           /\ IF r.code = SUCCESS /\ p = NULL
              THEN \* the engine stores the initial state through NULL
                   /\ aborted' = TRUE
                   /\ last' = Call("new", hashbitlen, 0, 0, 0, 0, "None", "Fault")
                   /\ UNCHANGED <<heap, blake, mem>>
              ELSE IF r.code = SUCCESS
              THEN /\ heap' = hp
                   /\ blake' = p
                   /\ mem' = r.st
                   /\ last' = Call("new", hashbitlen, 0, 0, 0, 0, "None", new_result(r.code))
                   /\ aborted' = (new_result(r.code) = "Panic")
              ELSE /\ heap' = new_on_error(hp, p)
                   /\ blake' = NULL
                   /\ mem' = NoState
                   /\ last' = Call("new", hashbitlen, 0, 0, 0, 0, "None", new_result(r.code))
                   /\ aborted' = (new_result(r.code) = "Panic")
    /\ input' = <<>>
    /\ nupdates' = 0
    /\ salted' = "no"
    /\ hashval' = NoBuf

\* Blake::add_salt(salt): only the slice's pointer reaches the engine; g is what
\* lies past the end of a slice shorter than the engine reads.
add_salt(salt, g) ==
    /\ ~aborted
    /\ blake # NULL
    /\ LET r   == BLAKE_Hash_AddSalt(mem, ReadThrough(salt, SaltBytes(mem.variant), g))
           res == add_salt_result(r.code)
       IN  /\ mem' = r.st
           /\ salted' = IF res = "Ok" THEN SaltKind(salt, mem.variant) ELSE salted
           /\ last' = Call("add_salt", mem.variant, 0, 0, Len(salt), 0, Phase(mem), res)
           /\ aborted' = (res = "Panic")
    /\ hashval' = NoBuf
    /\ UNCHANGED <<heap, blake, input, nupdates, nullCalls>>

\* The other outcome of add_salt on a slice that is too short: the read past its
\* end faults.
add_salt_fault(salt) ==
    /\ ~aborted
    /\ blake # NULL
    /\ Phase(mem) = "Fresh"
    /\ Len(salt) < SaltBytes(mem.variant)
    /\ aborted' = TRUE
    /\ last' = Call("add_salt", mem.variant, 0, 0, Len(salt), 0, Phase(mem), "Fault")
    /\ hashval' = NoBuf
    /\ UNCHANGED <<heap, blake, mem, input, nupdates, salted, nullCalls>>

\* Blake::update(data): the native return code is dropped.
update(len) ==
    /\ ~aborted
    /\ blake # NULL
    /\ nupdates < MaxUpdates
    /\ Len(input) + len <= MaxBytes
    /\ LET data == Chunk(Len(input), len)
           bits == update_databitlen(len)
           r    == BLAKE_Hash_Update(mem, data, bits)
       IN  /\ mem' = r.st
           /\ input' = IF mem.is_open THEN input \o data ELSE input
           /\ last' = Call("update", mem.variant, len, 0, 0, bits, Phase(mem), "Unit")
    /\ nupdates' = nupdates + 1
    /\ hashval' = NoBuf
    /\ UNCHANGED <<heap, blake, salted, nullCalls, aborted>>

\* Blake::finalise(hashval): the native return code is dropped; the engine stores
\* the digest through the pointer whatever the slice's length.
finalise(buflen) ==
    /\ ~aborted
    /\ blake # NULL
    /\ LET r == BLAKE_Hash_Final(mem, buflen)
       IN  /\ mem' = r.st
           /\ hashval' = r.out
           /\ last' = Call("finalise", mem.variant, 0, buflen, 0, 0, Phase(mem), "Unit")
    /\ UNCHANGED <<heap, blake, input, nupdates, salted, nullCalls, aborted>>

\* The other outcome of finalise on a slice that is too short: the store past
\* its end faults.
finalise_fault(buflen) ==
    /\ ~aborted
    /\ blake # NULL
    /\ mem.is_open
    /\ buflen < DigestBytes(mem.variant)
    /\ aborted' = TRUE
    /\ hashval' = Untouched(buflen)
    /\ last' = Call("finalise", mem.variant, 0, buflen, 0, 0, Phase(mem), "Fault")
    /\ UNCHANGED <<heap, blake, mem, input, nupdates, salted, nullCalls>>

\* impl Drop for Blake
drop ==
    /\ ~aborted
    /\ blake # NULL
    /\ heap' = free_hash_state(heap, blake)
    /\ blake' = NULL
    /\ mem' = NoState
    /\ input' = <<>>
    /\ nupdates' = 0
    /\ salted' = "no"
    /\ hashval' = NoBuf
    /\ last' = Call("drop", mem.variant, 0, 0, 0, 0, Phase(mem), "Unit")
    /\ UNCHANGED <<nullCalls, aborted>>

Next ==
    \/ \E n \in HashBitLens, len \in ChunkLens, b \in BufLens : hash(n, len, b)
    \/ \E n \in HashBitLens, p \in 0..MaxBlocks : new(n, p)
    \/ \E len \in SaltLens, kind \in {0, 1}, g \in Garbage : add_salt(Salt(len, kind), g)
    \/ \E len \in SaltLens : add_salt_fault(Salt(len, 1))
    \/ \E len \in ChunkLens : update(len)
    \/ \E b \in BufLens : finalise(b)
    \/ \E b \in BufLens : finalise_fault(b)
    \/ drop

Spec == Init /\ [][Next]_vars

\* ------------------------------------------------------------------ claims
FirstFinalise == last.op = "finalise" /\ last.pre # "Finalized" /\ last.res = "Unit"

\* The digest of a state fed `data` and never salted.
Unsalted(n, data, buflen) == BLAKE_Hash_Hash(n, data, 8 * Len(data), buflen).out

\* C1: a Blake value that was never salted, fed any chunks and finalised into a
\* buffer long enough, leaves in the buffer what hash leaves there for the
\* concatenation of the chunks.
C1_ChunkInvariance ==
    (FirstFinalise /\ salted = "no" /\ last.buflen >= DigestBytes(mem.variant))
        => /\ hash_call(mem.variant, input, last.buflen).res = "Ok"
           /\ hashval = hash_call(mem.variant, input, last.buflen).out

C1_Witness ==
    /\ FirstFinalise /\ salted = "no" /\ last.buflen >= DigestBytes(mem.variant)
    /\ nupdates >= 2
    /\ Len(input) > BlockBytes(mem.variant)
    /\ Len(mem.pending_buffer) > 0
    /\ hashval.written = DigestBytes(mem.variant)

\* C2: new and hash return Err(BadHashbitlen) exactly for a hashbitlen outside
\* {224, 256, 384, 512} and Ok inside it; a rejection leaves no Blake value and
\* an untouched buffer.
C2_BadHashbitlen ==
    (last.op \in {"new", "hash"} /\ last.res # "Fault")
        => /\ (last.hashbitlen \notin SupportedBits) <=> (last.res = "BadHashbitlen")
           /\ (last.hashbitlen \in SupportedBits) <=> (last.res = "Ok")
           /\ (last.res = "BadHashbitlen")
                 => /\ blake = NULL
                    /\ mem = NoState
                    /\ hashval.written = 0 /\ hashval.overrun = 0

C2_Witness ==
    /\ last.op = "new" /\ last.hashbitlen = 1024 /\ last.res = "BadHashbitlen"
    /\ blake = NULL

\* C3: add_salt with a salt of the right length returns Ok on a value that has
\* had no update and is not finalised; once update was called, with data of any
\* length, add_salt returns Err(Fail) and the engine state stays as it was.
C3_SaltOnlyFresh ==
    [][(last'.op = "add_salt" /\ last'.res # "Fault")
          => /\ (nupdates = 0 /\ mem.is_open
                   /\ last'.saltlen = SaltBytes(mem.variant)) => last'.res = "Ok"
             /\ (nupdates >= 1) => (last'.res = "Fail" /\ mem' = mem)]_vars

C3_Witness ==
    /\ last.op = "add_salt" /\ last.res = "Fail" /\ last.pre = "Accumulating"
    /\ nupdates = 1 /\ Len(input) = 0
    /\ last.saltlen = SaltBytes(mem.variant)

\* C4: every call on a finalised value returns an error.
C4_FinalizedTerminal ==
    (last.pre = "Finalized" /\ last.op \in {"update", "add_salt", "finalise"})
        => IsErr(last.res)

\* C5: add_salt with a salt of the wrong length returns an error and stores
\* nothing.
C5_SaltLength ==
    (last.op = "add_salt" /\ last.pre = "Fresh"
       /\ last.saltlen # SaltBytes(last.hashbitlen))
        => /\ IsErr(last.res)
           /\ mem.salt = Zeros(SaltBytes(last.hashbitlen))

\* C6: finalise and hash with a buffer shorter than hashbitlen/8 bytes return an
\* error and store nothing past its end; with a buffer long enough they store
\* hashbitlen/8 bytes.
C6_OutputBuffer ==
    (last.op \in {"finalise", "hash"} /\ last.pre # "Finalized"
       /\ last.hashbitlen \in SupportedBits)
        => IF last.buflen < DigestBytes(last.hashbitlen)
           THEN IsErr(last.res) /\ hashval.overrun = 0
           ELSE hashval.written = DigestBytes(last.hashbitlen)

\* The live value was salted with a salt of the right length and finalised
\* into a buffer long enough.
SaltedDigest ==
    /\ FirstFinalise
    /\ salted \in {"zero", "nonzero"}
    /\ last.buflen >= DigestBytes(mem.variant)

\* C7 as stated: the digest of a value salted with any salt of the right length
\* differs from the digest of an unsalted value fed the same updates.
C7_SaltEffect ==
    SaltedDigest => hashval # Unsalted(mem.variant, input, last.buflen)

\* C7 amended: it differs exactly when the salt is not all-zero; an all-zero
\* salt gives the digest of the unsalted value.
C7_SaltEffectNonzero ==
    SaltedDigest
        => (hashval # Unsalted(mem.variant, input, last.buflen))
               <=> (salted = "nonzero")

C7_Witness ==
    /\ SaltedDigest /\ salted = "nonzero"
    /\ Len(input) > BlockBytes(mem.variant)
    /\ hashval.written = DigestBytes(mem.variant)
    /\ hashval # Unsalted(mem.variant, input, last.buflen)

\* C8: a call that returns an error leaves the heap, the Blake value, its engine
\* state and the bytes it has hashed as they were, and stores no digest.
C8_ErrorAtomicity ==
    [][IsErr(last'.res)
          => /\ heap' = heap /\ blake' = blake /\ mem' = mem /\ input' = input
             /\ hashval'.written = 0]_vars

C8_Witness ==
    /\ last.op = "add_salt" /\ last.res = "Fail"
    /\ Len(input) > 0 /\ mem.is_open

C10_SingleOwnership ==
    /\ nullCalls = 0
    /\ \A b \in DOMAIN heap : heap[b] # "double-freed"
    /\ \A b \in DOMAIN heap : (heap[b] = "live") <=> (blake = b)

====
